---- MODULE Spec2Model ----
(***************************************************************************)
(* Solar-eclipse estimators of the repository:                             *)
(*   Solar_eclipse.py   eclipse(minutes, times, location, sun, moon) and   *)
(*                      its CSV batch driver;                              *)
(*   Skript_eclipse.py  estimate_eclipse(lat, lon) and its batch driver.   *)
(* Angles (separations, angular radii) are integers on one common grid,    *)
(* instants are minutes since 00:00 UTC of 12 Aug 2026, magnitudes are     *)
(* exact rationals <<numerator, denominator>> with a positive denominator. *)
(* The ephemeris (Skyfield) is an external collaborator: what it returns   *)
(* for one observer is an input of the call, drawn from bounded sets.      *)
(***************************************************************************)
EXTENDS Integers, Sequences, FiniteSets, TLC

VARIABLES
    script,         \* which script runs: "Solar_eclipse" or "Skript_eclipse"
    times,          \* Solar_eclipse.py: the module-level search window
    input,          \* the data rows of the input CSV, header excluded
    idx,            \* number of input rows the driver's loop has consumed
    pc,             \* position of the script / of the call
    rows,           \* results accumulated by the driver's loop
    out,            \* data rows of the output CSV, <<>> until written
    raised,         \* exception that ended the last call or the script
    separations,    \* eclipse: the list built by the scan
    min_idx,        \* eclipse: np.argmin(separations), 0-based
    t_max,          \* eclipse: times[min_idx]
    d,              \* eclipse: separation at t_max
    R_sun,          \* eclipse: angular radius of the Sun
    R_moon,         \* eclipse: angular radius of the Moon
    events,         \* estimate_eclipse: what find_discrete returned
    ret_time,       \* returned time (t_max_utc / eclipse_time)
    magnitude,      \* returned magnitude
    prev,           \* the earlier call whose t_max the window is re-centred on
    ephemeris       \* the loaded ephemeris: what it returns for each observer

vars == <<script, times, input, idx, pc, rows, out, raised, separations,
          min_idx, t_max, d, R_sun, R_moon, events, ret_time, magnitude,
          prev, ephemeris>>

callVars == <<raised, separations, min_idx, t_max, d, R_sun, R_moon, events,
              ret_time, magnitude>>

-----------------------------------------------------------------------------
(* Bounds of the single-call specification SpecCall *)
MaxSamples == 3     \* samples of the search window
MaxSep == 3         \* largest separation the ephemeris returns
MaxRadius == 2      \* largest angular radius
MaxEvents == 3      \* events find_discrete returns

(* Bounds of the batch specification Spec *)
MaxRows == 2        \* data rows of the input CSV
BatchSamples == 1
BatchSep == 1
BatchRadius == 1
BatchEvents == 1

(* Program constants *)
WindowHalfWidth == 60       \* np.linspace(-60, 60, ...)
CenterHour == 18            \* ts.utc(2026, 8, 12, 18, minutes)
StartHour == 15             \* start_time = ts.utc(2026, 8, 12, 15)
ProxyScaleKm == 10000       \* mag = max(0, 1 - distance / 10000)
SolarDigits == 4            \* round(magnitude, 4)
SkriptDigits == 3           \* round(mag, 3)
MaxEclipseEvent == 1        \* if ei == 1

-----------------------------------------------------------------------------
(* Values *)
NoValue == -1                               \* a local that was never assigned
NoMagnitude == <<-1, 1>>                    \* no magnitude was returned
NoneTime == [hour |-> -1, minute |-> -1]    \* Python None as a time
BadField == -999                            \* a CSV field that is not a number

Abs(x) == IF x < 0 THEN -x ELSE x
Min(a, b) == IF a <= b THEN a ELSE b
Max(a, b) == IF a >= b THEN a ELSE b

RECURSIVE Pow10(_)
Pow10(n) == IF n = 0 THEN 1 ELSE 10 * Pow10(n - 1)

(* Comparison of rationals with positive denominators *)
QLe(p, q) == p[1] * q[2] <= q[1] * p[2]
QLt(p, q) == p[1] * q[2] < q[1] * p[2]
QEq(p, q) == p[1] * q[2] = q[1] * p[2]
Zero == <<0, 1>>
One == <<1, 1>>

(* round(x, ndigits) of a non-negative x: to the nearest multiple of       *)
(* 10^-ndigits, a tie going to the even one.                               *)
Round(q, ndigits) ==
    LET scale == Pow10(ndigits)
        num == q[1] * scale
        floor == num \div q[2]
        twice == 2 * (num % q[2])
        k == IF twice < q[2] THEN floor
             ELSE IF twice > q[2] THEN floor + 1
             ELSE IF floor % 2 = 0 THEN floor ELSE floor + 1
    IN  <<k, scale>>

(* Time.utc_datetime() / Time.utc_iso(): the calendar reading of an instant *)
UtcDatetime(t) == [hour |-> t \div 60, minute |-> t % 60]

-----------------------------------------------------------------------------
(* Solar_eclipse.py: the search window *)

(* np.linspace(lo, hi, n) *)
Linspace(lo, hi, n) ==
    [i \in 1..n |-> IF n = 1 THEN lo ELSE lo + ((i - 1) * (hi - lo)) \div (n - 1)]

(* minutes = np.linspace(-60, 60, n); times = ts.utc(2026, 8, 12, 18, minutes) *)
Window(n) ==
    LET minutes == Linspace(-WindowHalfWidth, WindowHalfWidth, n)
    IN  [i \in 1..n |-> CenterHour * 60 + minutes[i]]

-----------------------------------------------------------------------------
(* Solar_eclipse.py: eclipse() *)

(* np.argmin: the index (0-based) of the first occurrence of the minimum *)
RECURSIVE ArgminScan(_, _, _)
ArgminScan(s, i, best) ==
    IF i > Len(s) THEN best
    ELSE ArgminScan(s, i + 1, IF s[i] < s[best] THEN i ELSE best)

ArgminLast(s) ==
    (CHOOSE i \in 1..Len(s) :
        /\ \A j \in 1..Len(s) : s[i] <= s[j]
        /\ \A j \in (i + 1)..Len(s) : s[j] > s[i]) - 1

argmin(s) == ArgminScan(s, 2, 1) - 1

SampleShifted(tms, i) == tms[i + 1] + 1

(* times[min_idx] *)
SampleAt(tms, i) == tms[i + 1]

MagnitudeNoFloor(dd, Rs, Rm) ==
    IF dd <= Abs(Rs - Rm) THEN <<Min(Rm, Rs), Rs>>
    ELSE <<Rm + Rs - dd, 2 * Rs>>

MagnitudeNoMin(dd, Rs, Rm) ==
    IF dd >= Rs + Rm THEN <<0, 1>>
    ELSE IF dd <= Abs(Rs - Rm) THEN <<Rm, Rs>>
    ELSE <<Rm + Rs - dd, 2 * Rs>>

MagnitudeNoHalf(dd, Rs, Rm) ==
    IF dd >= Rs + Rm THEN <<0, 1>>
    ELSE IF dd <= Abs(Rs - Rm) THEN <<Min(Rm, Rs), Rs>>
    ELSE <<Rm + Rs - dd, Rs>>

MagnitudeSumRadii(dd, Rs, Rm) ==
    IF dd >= Rs + Rm THEN <<0, 1>>
    ELSE IF dd <= Abs(Rs - Rm) THEN <<Min(Rm, Rs), Rs>>
    ELSE <<Rm + Rs - dd, Rs + Rm>>

MagnitudeSign(dd, Rs, Rm) ==
    IF dd >= Rs + Rm THEN <<0, 1>>
    ELSE IF dd <= Abs(Rs - Rm) THEN <<Min(Rm, Rs), Rs>>
    ELSE <<Abs(Rm - Rs) + dd, 2 * Rs>>

MagnitudeTotal(dd, Rs, Rm) ==
    IF dd >= Rs + Rm THEN <<0, 1>>
    ELSE IF dd <= Abs(Rs - Rm) THEN <<1, 1>>
    ELSE <<Rm + Rs - dd, 2 * Rs>>

(* The magnitude policy: no contact, full coverage, partial overlap *)
Magnitude(dd, Rs, Rm) ==
    IF dd >= Rs + Rm THEN <<0, 1>>
    ELSE IF dd <= Abs(Rs - Rm) THEN <<Min(Rm, Rs), Rs>>
    ELSE <<Rm + Rs - dd, 2 * Rs>>

(* What the ephemeris returns for one observer over a window of n samples: *)
(* sep[i] the Sun-Moon separation at sample i, the angular radii at the    *)
(* sample of least separation, and failAt, the sample at which it raises   *)
(* (0: it never raises).                                                   *)
Ephemerides(n, maxSep, maxRadius) ==
    [sep : [1..n -> 0..maxSep], failAt : 0..n,
     R_sun : 1..maxRadius, R_moon : 1..maxRadius]

NoCall ==
    [raised |-> "none", separations |-> <<>>, min_idx |-> NoValue,
     t_max |-> NoValue, d |-> NoValue, R_sun |-> NoValue, R_moon |-> NoValue,
     events |-> <<>>, ret_time |-> NoneTime, magnitude |-> NoMagnitude]

(* Lines 49-74: the sample of least separation and the magnitude there *)
EclipseAt(tms, eph) ==
    LET mi == argmin(eph.sep)
        tm == SampleAt(tms, mi)
        dd == eph.sep[mi + 1]
    IN  [NoCall EXCEPT !.separations = eph.sep,
                       !.min_idx = mi,
                       !.t_max = tm,
                       !.ret_time = UtcDatetime(tm),
                       !.d = dd,
                       !.R_sun = eph.R_sun,
                       !.R_moon = eph.R_moon,
                       !.magnitude = Magnitude(dd, eph.R_sun, eph.R_moon)]

eclipseUnguarded(tms, eph) ==
    IF eph.failAt \in 1..Len(tms)
    THEN [NoCall EXCEPT !.raised = "EphemerisRangeError",
                        !.separations = SubSeq(eph.sep, 1, eph.failAt - 1)]
    ELSE IF Len(tms) = 0
    THEN [NoCall EXCEPT !.magnitude = Zero]
    ELSE EclipseAt(tms, eph)

(* eclipse(minutes, times, location, sun, moon): the scan stops at the     *)
(* sample where the ephemeris raises; np.argmin raises ValueError on an    *)
(* empty list.                                                             *)
eclipse(tms, eph) ==
    IF eph.failAt \in 1..Len(tms)
    THEN [NoCall EXCEPT !.raised = "EphemerisRangeError",
                        !.separations = SubSeq(eph.sep, 1, eph.failAt - 1)]
    ELSE IF Len(tms) = 0
    THEN [NoCall EXCEPT !.raised = "ValueError"]
    ELSE EclipseAt(tms, eph)

-----------------------------------------------------------------------------
(* Skript_eclipse.py: estimate_eclipse() *)

Altitudes == {-10, 0, 10}
Distances == {ProxyScaleKm \div 3, 2 * ProxyScaleKm}

(* One event of find_discrete with what the ephemeris returns at its time: *)
(* the event code; for a maximum, the Sun's altitude (degrees); for a      *)
(* maximum with the Sun up, the Sun-Moon distance (km). What the code does *)
(* not ask for is NoValue.                                                 *)
EventData ==
    [e : 0..2 \ {MaxEclipseEvent}, sun_alt : {NoValue}, distance : {NoValue}]
    \cup [e : {MaxEclipseEvent}, sun_alt : {a \in Altitudes : a <= 0},
          distance : {NoValue}]
    \cup [e : {MaxEclipseEvent}, sun_alt : {a \in Altitudes : a > 0},
          distance : Distances]

(* times, events = find_discrete(t0, t1, ...): at most n events, at        *)
(* increasing times from start_time on                                     *)
EventLists(n) == UNION {[1..k -> EventData] : k \in 0..n}

EventTime(i) == StartHour * 60 + 60 * i

(* mag = max(0, 1 - distance / 10000) *)
ProxyMagnitude(distance) == <<Max(0, ProxyScaleKm - distance), ProxyScaleKm>>

(* for ti, ei in zip(times, events): the first maximum with the Sun up *)
RECURSIVE EstimateFrom(_, _)
EstimateFrom(ev, i) ==
    IF i > Len(ev) THEN [NoCall EXCEPT !.events = ev, !.magnitude = Zero]
    ELSE IF ev[i].e = MaxEclipseEvent /\ ev[i].sun_alt > 0
    THEN [NoCall EXCEPT !.events = ev,
                        !.ret_time = UtcDatetime(EventTime(i)),
                        !.magnitude = Round(ProxyMagnitude(ev[i].distance),
                                            SkriptDigits)]
    ELSE EstimateFrom(ev, i + 1)

(* What the ephemeris does in one call: it raises, or find_discrete       *)
(* returns a list of events                                                *)
Raises == <<[e |-> NoValue, sun_alt |-> NoValue, distance |-> NoValue]>>
Almanacs(n) == EventLists(n) \cup {Raises}

RECURSIVE EstimateFromHorizon(_, _)
EstimateFromHorizon(ev, i) ==
    IF i > Len(ev) THEN [NoCall EXCEPT !.events = ev, !.magnitude = Zero]
    ELSE IF ev[i].e = MaxEclipseEvent /\ ev[i].sun_alt >= 0
    THEN [NoCall EXCEPT !.events = ev,
                        !.ret_time = UtcDatetime(EventTime(i)),
                        !.magnitude = Round(ProxyMagnitude(ev[i].distance),
                                            SkriptDigits)]
    ELSE EstimateFromHorizon(ev, i + 1)

estimate_eclipseAtHorizon(ev) ==
    IF ev = Raises THEN [NoCall EXCEPT !.raised = "EphemerisRangeError"]
    ELSE IF Len(ev) = 0 THEN [NoCall EXCEPT !.magnitude = Zero]
    ELSE EstimateFromHorizon(ev, 1)

(* estimate_eclipse(lat, lon) *)
estimate_eclipse(ev) ==
    IF ev = Raises THEN [NoCall EXCEPT !.raised = "EphemerisRangeError"]
    ELSE IF Len(ev) = 0 THEN [NoCall EXCEPT !.magnitude = Zero]
    ELSE EstimateFrom(ev, 1)

-----------------------------------------------------------------------------
(* The calls *)

Scripts == {"Solar_eclipse", "Skript_eclipse"}

SetCall(r) ==
    /\ raised' = r.raised
    /\ separations' = r.separations
    /\ min_idx' = r.min_idx
    /\ t_max' = r.t_max
    /\ d' = r.d
    /\ R_sun' = r.R_sun
    /\ R_moon' = r.R_moon
    /\ events' = r.events
    /\ ret_time' = r.ret_time
    /\ magnitude' = r.magnitude

NoPrev ==
    [times |-> <<>>, separations |-> <<>>, t_max |-> NoValue,
     half_width |-> NoValue]

InitLocals ==
    /\ raised = "none"
    /\ separations = <<>>
    /\ min_idx = NoValue
    /\ t_max = NoValue
    /\ d = NoValue
    /\ R_sun = NoValue
    /\ R_moon = NoValue
    /\ events = <<>>
    /\ ret_time = NoneTime
    /\ magnitude = NoMagnitude

(* One call of eclipse() over a window of up to MaxSamples samples *)
InitCall ==
    /\ script \in Scripts
    /\ times \in IF script = "Solar_eclipse"
                 THEN {Window(n) : n \in 0..MaxSamples}
                 ELSE {<<>>}
    /\ input = <<>>
    /\ idx = 0
    /\ pc = "call"
    /\ rows = <<>>
    /\ out = <<>>
    /\ prev = NoPrev
    /\ ephemeris = <<>>
    /\ InitLocals

CallEclipse ==
    /\ script = "Solar_eclipse"
    /\ pc = "call"
    /\ \E eph \in Ephemerides(Len(times), MaxSep, MaxRadius) :
           SetCall(eclipse(times, eph))
    /\ pc' = "returned"
    /\ UNCHANGED <<script, times, input, idx, rows, out, prev, ephemeris>>

CallEstimateEclipse ==
    /\ script = "Skript_eclipse"
    /\ pc = "call"
    /\ \E ev \in Almanacs(MaxEvents) : SetCall(estimate_eclipse(ev))
    /\ pc' = "returned"
    /\ UNCHANGED <<script, times, input, idx, rows, out, prev, ephemeris>>

NextCall == CallEclipse \/ CallEstimateEclipse

SpecCall == InitCall /\ [][NextCall]_vars

-----------------------------------------------------------------------------
(* Operation A run twice: over the window of the script, then over a       *)
(* narrower window centred on the t_max the first run returned             *)

RtSamples == 4      \* samples of the first window
RtResamples == 3    \* samples of the narrower window
RtSep == 1          \* largest separation the ephemeris returns

(* Half-widths (minutes) of the narrower window, below WindowHalfWidth *)
NarrowHalfWidths == {w \in {12, 48} : w < WindowHalfWidth}

(* minutes = np.linspace(-w, w, n); times = the centre plus minutes *)
Recentred(centre, w, n) ==
    LET minutes == Linspace(-w, w, n)
    IN  [i \in 1..n |-> centre + minutes[i]]

(* The ephemeris over n samples when it does not raise; the angular radii  *)
(* do not enter the scan                                                   *)
ScanEphemerides(n) == {eph \in Ephemerides(n, RtSep, 1) : eph.failAt = 0}

(* The ephemeris is deterministic: at an instant of both windows it        *)
(* returns the separation it returned before                               *)
SameEphemeris(eph) ==
    \A i \in 1..Len(prev.times), j \in 1..Len(times) :
        prev.times[i] = times[j] => eph.sep[j] = prev.separations[i]

InitRoundTrip ==
    /\ script = "Solar_eclipse"
    /\ times \in {Window(n) : n \in 1..RtSamples}
    /\ input = <<>>
    /\ idx = 0
    /\ pc = "call"
    /\ rows = <<>>
    /\ out = <<>>
    /\ prev = NoPrev
    /\ ephemeris = <<>>
    /\ InitLocals

FirstScan ==
    /\ pc = "call"
    /\ \E eph \in ScanEphemerides(Len(times)) : SetCall(eclipse(times, eph))
    /\ pc' = "returned"
    /\ UNCHANGED <<script, times, input, idx, rows, out, prev, ephemeris>>

Recentre ==
    /\ pc = "returned"
    /\ raised = "none"
    /\ \E w \in NarrowHalfWidths, n \in 1..RtResamples :
           /\ prev' = [times |-> times, separations |-> separations,
                       t_max |-> t_max, half_width |-> w]
           /\ times' = Recentred(t_max, w, n)
    /\ pc' = "recentred"
    /\ UNCHANGED <<script, input, idx, rows, out, ephemeris, callVars>>

Rescan ==
    /\ pc = "recentred"
    /\ \E eph \in ScanEphemerides(Len(times)) :
           SameEphemeris(eph) /\ SetCall(eclipse(times, eph))
    /\ pc' = "rerun"
    /\ UNCHANGED <<script, times, input, idx, rows, out, prev, ephemeris>>

NextRoundTrip == FirstScan \/ Recentre \/ Rescan

SpecRoundTrip == InitRoundTrip /\ [][NextRoundTrip]_vars

-----------------------------------------------------------------------------
(* The batch drivers *)

(* Solar_eclipse.py reads one cell "lon;lat" per row: a row is the list of *)
(* the fields of that cell. Skript_eclipse.py reads the columns Lat, Long. *)
RowCells(s) ==
    IF s = "Solar_eclipse"
    THEN {<<14, 50>>, <<-3, 40>>, <<14>>, <<BadField, 50>>}
    ELSE {<<50, 14>>, <<40, -3>>}

SeqsUpTo(S, n) == UNION {[1..k -> S] : k \in 0..n}

ParseCellSwapped(row) ==
    IF Len(row) # 2 \/ BadField \in {row[i] : i \in 1..Len(row)}
    THEN [ok |-> FALSE, lat |-> NoValue, lon |-> NoValue]
    ELSE [ok |-> TRUE, lat |-> row[1], lon |-> row[2]]

(* lon_str, lat_str = row[0].split(';'); lon = float(...); lat = float(...) *)
ParseCell(row) ==
    IF Len(row) # 2 \/ BadField \in {row[i] : i \in 1..Len(row)}
    THEN [ok |-> FALSE, lat |-> NoValue, lon |-> NoValue]
    ELSE [ok |-> TRUE, lat |-> row[2], lon |-> row[1]]

(* [lat, lon, time_max, round(magnitude, 4)] *)
SolarResultRow(lat, lon, time_max, mag) ==
    [lat |-> lat, lon |-> lon, time |-> time_max,
     mag |-> Round(mag, SolarDigits)]

(* Bounds of the batch with the ephemeris loaded beforehand *)
LoadRows == 3
LoadSamples == 2
LoadSep == 1

(* The observers (lat, lon) of the well-formed rows *)
Observers == {<<ParseCell(c).lat, ParseCell(c).lon>> :
                  c \in {c \in RowCells("Solar_eclipse") : ParseCell(c).ok}}

ProviderOfFirstRow(lat, lon) ==
    IF DOMAIN ephemeris = {}
    THEN Ephemerides(Len(times), BatchSep, BatchRadius)
    ELSE {ephemeris[<<ParseCell(input[1]).lat, ParseCell(input[1]).lon>>]}

(* location = earth + Topos(lat, lon); location.at(t).observe(...): what   *)
(* the ephemeris returns for the observer at (lat, lon). With no ephemeris *)
(* fixed beforehand, any answer.                                           *)
Provider(lat, lon) ==
    IF DOMAIN ephemeris = {}
    THEN Ephemerides(Len(times), BatchSep, BatchRadius)
    ELSE {ephemeris[<<lat, lon>>]}

Init ==
    /\ script \in Scripts
    /\ times \in IF script = "Solar_eclipse"
                 THEN {Window(n) : n \in 0..BatchSamples}
                 ELSE {<<>>}
    /\ input \in SeqsUpTo(RowCells(script), MaxRows)
    /\ idx = 0
    /\ pc = "loop"
    /\ rows = <<>>
    /\ out = <<>>
    /\ prev = NoPrev
    /\ ephemeris = <<>>
    /\ InitLocals

(* Solar_eclipse.py, one turn of "for row in reader": an exception of the  *)
(* parse or of eclipse() is caught nowhere and ends the script.            *)
SolarRow ==
    /\ script = "Solar_eclipse"
    /\ pc = "loop"
    /\ idx < Len(input)
    /\ LET p == ParseCell(input[idx + 1])
       IN  IF ~p.ok
           THEN /\ raised' = "ValueError"
                /\ pc' = "crashed"
                /\ UNCHANGED <<idx, rows, separations, min_idx, t_max, d,
                               R_sun, R_moon, events, ret_time, magnitude>>
           ELSE \E eph \in Provider(p.lat, p.lon) :
                    LET r == eclipse(times, eph)
                    IN  /\ SetCall(r)
                        /\ IF r.raised # "none"
                           THEN pc' = "crashed" /\ UNCHANGED <<idx, rows>>
                           ELSE /\ rows' = Append(rows,
                                        SolarResultRow(p.lat, p.lon,
                                                       r.ret_time, r.magnitude))
                                /\ idx' = idx + 1
                                /\ pc' = pc
    /\ UNCHANGED <<script, times, input, out, prev, ephemeris>>

(* Solar_eclipse.py, after the loop: the header and every row are written *)
SolarWrite ==
    /\ script = "Solar_eclipse"
    /\ pc = "loop"
    /\ idx = Len(input)
    /\ out' = rows
    /\ pc' = "done"
    /\ UNCHANGED <<script, times, input, idx, rows, callVars, prev,
                   ephemeris>>

(* Skript_eclipse.py, one turn of "for idx, row in df.iterrows()" *)
SkriptRow ==
    /\ script = "Skript_eclipse"
    /\ pc = "loop"
    /\ idx < Len(input)
    /\ \E ev \in Almanacs(BatchEvents) :
           LET r == estimate_eclipse(ev)
           IN  /\ SetCall(r)
               /\ IF r.raised # "none"
                  THEN pc' = "crashed" /\ UNCHANGED <<idx, rows>>
                  ELSE /\ rows' = Append(rows, [time |-> r.ret_time,
                                                mag |-> r.magnitude])
                       /\ idx' = idx + 1
                       /\ pc' = pc
    /\ UNCHANGED <<script, times, input, out, prev, ephemeris>>

(* Skript_eclipse.py, after the loop: the two lists become columns of df,  *)
(* which is saved                                                          *)
SkriptSave ==
    /\ script = "Skript_eclipse"
    /\ pc = "loop"
    /\ idx = Len(input)
    /\ out' = [i \in 1..Len(input) |->
                  [lat |-> input[i][1], lon |-> input[i][2],
                   time |-> rows[i].time, mag |-> rows[i].mag]]
    /\ pc' = "done"
    /\ UNCHANGED <<script, times, input, idx, rows, callVars, prev,
                   ephemeris>>

Next == SolarRow \/ SolarWrite \/ SkriptRow \/ SkriptSave

(* Solar_eclipse.py over well-formed rows, with eph = load('de421.bsp')    *)
(* fixed before the loop: a deterministic answer for every observer, over  *)
(* a non-empty window and never raising.                                   *)
InitLoaded ==
    /\ script = "Solar_eclipse"
    /\ times \in {Window(n) : n \in 1..LoadSamples}
    /\ input \in SeqsUpTo({c \in RowCells(script) : ParseCell(c).ok}, LoadRows)
    /\ ephemeris \in [Observers ->
                         {e \in Ephemerides(Len(times), LoadSep, 1) :
                              e.failAt = 0}]
    /\ idx = 0
    /\ pc = "loop"
    /\ rows = <<>>
    /\ out = <<>>
    /\ prev = NoPrev
    /\ InitLocals

NextLoaded == SolarRow \/ SolarWrite

SpecLoaded == InitLoaded /\ [][NextLoaded]_vars

Spec == Init /\ [][Next]_vars

-----------------------------------------------------------------------------
(* Properties of one call, checked under SpecCall *)

SolarReturned ==
    script = "Solar_eclipse" /\ pc = "returned" /\ raised = "none"

SkriptReturned ==
    script = "Skript_eclipse" /\ pc = "returned" /\ raised = "none"

Contact(dd, Rs, Rm) == dd < Rs + Rm
Contained(dd, Rs, Rm) == Contact(dd, Rs, Rm) /\ dd <= Abs(Rs - Rm)
Partial(dd, Rs, Rm) == Abs(Rs - Rm) < dd /\ dd < Rs + Rm

InUnitInterval(q) == QLe(Zero, q) /\ QLe(q, One)

\* C1: whenever eclipse (or estimate_eclipse) returns an estimate, the
\* magnitude it returns, and the rounded magnitude the driver stores, lie in
\* the closed interval [0, 1], whichever branch was taken.
C1_MagnitudeInUnitInterval ==
    /\ SolarReturned =>
           /\ InUnitInterval(magnitude)
           /\ InUnitInterval(Round(magnitude, SolarDigits))
    /\ SkriptReturned => InUnitInterval(magnitude)

C1_Witness ==
    /\ SolarReturned
    /\ Len(times) > 1
    /\ R_moon > R_sun
    /\ QEq(magnitude, One)

\* C2: if the separation d at t_max is at least R_sun + R_moon, the returned
\* magnitude is exactly 0.0.
C2_NoContactIsZero ==
    (SolarReturned /\ d >= R_sun + R_moon) => magnitude = <<0, 1>>

C2_Witness ==
    SolarReturned /\ d > R_sun + R_moon /\ magnitude = <<0, 1>>

\* C3: if d < R_sun + R_moon and d <= |R_sun - R_moon|, the magnitude is
\* min(R_moon, R_sun) / R_sun: exactly 1 when R_moon >= R_sun, and
\* R_moon / R_sun, strictly below 1, when R_moon < R_sun.
C3_ContainedIsRatio ==
    (SolarReturned /\ Contained(d, R_sun, R_moon)) =>
        /\ QEq(magnitude, <<Min(R_moon, R_sun), R_sun>>)
        /\ R_moon >= R_sun => magnitude[1] = magnitude[2]
        /\ R_moon < R_sun =>
               QEq(magnitude, <<R_moon, R_sun>>) /\ QLt(magnitude, One)

C3_Witness ==
    SolarReturned /\ d = 0 /\ R_moon < R_sun /\ QLt(magnitude, One)

\* C4: if |R_sun - R_moon| < d < R_sun + R_moon, the magnitude is the linear
\* proxy (R_moon + R_sun - d) / (2 * R_sun), strictly between 0 and 1.
C4_PartialIsLinearProxy ==
    (SolarReturned /\ Partial(d, R_sun, R_moon)) =>
        /\ QEq(magnitude, <<R_moon + R_sun - d, 2 * R_sun>>)
        /\ QLt(Zero, magnitude)
        /\ QLt(magnitude, One)

C4_Witness ==
    /\ SolarReturned
    /\ Partial(d, R_sun, R_moon)
    /\ R_sun # R_moon
    /\ QLt(Zero, magnitude)

\* C5: for fixed radii the magnitude is non-increasing in d within the
\* partial-overlap branch: the magnitude returned at d is at least the
\* magnitude at any larger d of the branch and at most the magnitude at any
\* smaller one.
C5_PartialNonIncreasing ==
    (SolarReturned /\ Partial(d, R_sun, R_moon)) =>
        \A d2 \in 0..(R_sun + R_moon) :
            Partial(d2, R_sun, R_moon) =>
                /\ d <= d2 => QLe(Magnitude(d2, R_sun, R_moon), magnitude)
                /\ d2 <= d => QLe(magnitude, Magnitude(d2, R_sun, R_moon))

C5_Witness ==
    /\ SolarReturned
    /\ Partial(d, R_sun, R_moon)
    /\ \E d2 \in 0..(R_sun + R_moon) :
           /\ Partial(d2, R_sun, R_moon)
           /\ d < d2
           /\ QLt(Magnitude(d2, R_sun, R_moon), magnitude)

\* C6: over a non-empty window eclipse selects a sample whose separation is
\* the minimum over all samples, and the earliest of the samples that attain
\* that minimum.
C6_EarliestMinimum ==
    SolarReturned =>
        /\ Len(separations) = Len(times)
        /\ min_idx \in 0..(Len(times) - 1)
        /\ \A j \in 1..Len(separations) :
               separations[min_idx + 1] <= separations[j]
        /\ \A j \in 1..min_idx :
               separations[j] > separations[min_idx + 1]
        /\ d = separations[min_idx + 1]

C6_Witness ==
    /\ SolarReturned
    /\ \E i, j \in 1..Len(separations) :
           /\ i < j
           /\ i = min_idx + 1
           /\ i > 1
           /\ separations[j] = separations[i]

\* C7: the t_max returned is the instant of one of the samples of the window
\* (index within 0..N-1): never before the first sample, never after the
\* last, never between two samples.
C7_TmaxIsASample ==
    SolarReturned =>
        /\ \E i \in 1..Len(times) :
               /\ i = min_idx + 1
               /\ t_max = times[i]
               /\ ret_time = UtcDatetime(times[i])
        /\ times[1] <= t_max
        /\ t_max <= times[Len(times)]

C7_Witness ==
    /\ SolarReturned
    /\ Len(times) > 1
    /\ min_idx = Len(times) - 1
    /\ t_max = times[Len(times)]

-----------------------------------------------------------------------------
(* Properties of the batch, checked under Spec *)

EmptyWindow == script = "Solar_eclipse" /\ Len(times) = 0

\* C8: over an empty window the operation fails with Python's invalid-input
\* error (ValueError): it returns no (t_max, magnitude) estimate and no
\* result row is produced for the observer.
C8_EmptyWindowFails ==
    EmptyWindow =>
        /\ rows = <<>>
        /\ out = <<>>
        /\ idx = 0
        /\ t_max = NoValue
        /\ ret_time = NoneTime
        /\ magnitude = NoMagnitude
        /\ pc = "crashed" => raised = "ValueError"
        /\ pc = "done" => input = <<>>

C8_Witness ==
    /\ EmptyWindow
    /\ Len(input) > 0
    /\ ParseCell(input[1]).ok
    /\ pc = "crashed"
    /\ raised = "ValueError"
    /\ rows = <<>>

\* C9: a per-observer failure does not abort the batch: the script is never
\* ended by an observer's failure, and when it ends the output holds a row
\* for every row of the input.
C9_FailureDoesNotAbortBatch ==
    /\ pc # "crashed"
    /\ pc = "done" => Len(out) = Len(input)

(* The coordinates of input row i as the CSV gives them *)
InputLat(i) == IF script = "Solar_eclipse" THEN input[i][2] ELSE input[i][1]
InputLon(i) == IF script = "Solar_eclipse" THEN input[i][1] ELSE input[i][2]

(* The row the driver stores for the estimate (time, mag) a call returns *)
StoredEstimate(row, time, mag) ==
    /\ row.time = time
    /\ row.mag = IF script = "Solar_eclipse"
                 THEN Round(mag, SolarDigits) ELSE mag

RowsFollowInput ==
    /\ Len(rows) = idx
    /\ idx <= Len(input)
    /\ script = "Solar_eclipse" =>
           \A i \in 1..Len(rows) :
               rows[i].lat = InputLat(i) /\ rows[i].lon = InputLon(i)
    /\ pc = "done" =>
           /\ Len(out) = Len(input)
           /\ \A i \in 1..Len(out) :
                  /\ out[i].lat = InputLat(i)
                  /\ out[i].lon = InputLon(i)
                  /\ out[i].time = rows[i].time
                  /\ out[i].mag = rows[i].mag
    /\ pc # "done" => out = <<>>

RowsOnlyGrowAtTheEnd ==
    \/ rows' = rows
    \/ /\ Len(rows') = Len(rows) + 1
       /\ SubSeq(rows', 1, Len(rows)) = rows
       /\ StoredEstimate(rows'[Len(rows')], ret_time', magnitude')

\* C10: the driver produces exactly one result per input observer, in the
\* order of the input: the results so far are those of the rows consumed so
\* far, each new result is appended after the earlier ones, which never
\* change, and the i-th output row carries the coordinates and the estimate
\* of the i-th input row.
C10_OneResultPerObserverInOrder ==
    []RowsFollowInput /\ [][RowsOnlyGrowAtTheEnd]_vars

C10_Witness ==
    /\ script = "Solar_eclipse"
    /\ pc = "done"
    /\ Len(out) = 2
    /\ out[1].lat # out[2].lat
    /\ out[1].mag # out[2].mag

-----------------------------------------------------------------------------
(* Properties of estimate_eclipse, checked under SpecCall *)

VisibleMaximum(i) ==
    events[i].e = MaxEclipseEvent /\ events[i].sun_alt > 0

\* C11: estimate_eclipse returns a non-null time only for a maximum-eclipse
\* event at which the Sun's altitude is strictly above 0 degrees; when no
\* event of the window is one (no events, no maximum, Sun at or below the
\* horizon) it returns exactly (None, 0.0), so a null time always comes with
\* magnitude 0.0.
C11_HorizonGate ==
    SkriptReturned =>
        /\ ret_time # NoneTime =>
               \E i \in 1..Len(events) :
                   VisibleMaximum(i) /\ ret_time = UtcDatetime(EventTime(i))
        /\ (~ \E i \in 1..Len(events) : VisibleMaximum(i)) =>
               ret_time = NoneTime /\ magnitude = <<0, 1>>
        /\ ret_time = NoneTime => magnitude = <<0, 1>>

C11_Witness ==
    /\ SkriptReturned
    /\ \E i \in 1..Len(events) :
           events[i].e = MaxEclipseEvent /\ events[i].sun_alt = 0
    /\ ret_time = NoneTime
    /\ magnitude = <<0, 1>>

-----------------------------------------------------------------------------
(* Properties of the round trip, checked under SpecRoundTrip *)

Rerun == pc = "rerun" /\ raised = "none"

(* The sample spacing of a uniform window of two samples or more *)
Spacing(w) == w[2] - w[1]

\* C12 (as the specification states it): rerunning Operation A over a narrower window centred on
\* the t_max of the first run returns a time within one sample spacing of the
\* first window from that t_max.
C12_RerunWithinOneSpacing ==
    (Rerun /\ Len(prev.times) >= 2) =>
        Abs(t_max - prev.t_max) <= Spacing(prev.times)

\* C12 (amended): the rerun returns a sample of the narrower window, so a
\* time within the half-width of that window from the first t_max; it is
\* within one sample spacing of the first window whenever that half-width is
\* at most the spacing.
C12_RerunWithinHalfWidth ==
    Rerun =>
        /\ \E j \in 1..Len(times) : t_max = times[j]
        /\ Abs(t_max - prev.t_max) <= prev.half_width
        /\ (Len(prev.times) >= 2 /\ prev.half_width <= Spacing(prev.times)) =>
               Abs(t_max - prev.t_max) <= Spacing(prev.times)

C12_Witness ==
    /\ Rerun
    /\ Len(prev.times) >= 2
    /\ prev.half_width <= Spacing(prev.times)
    /\ Len(times) >= 2
    /\ t_max # prev.t_max
    /\ Abs(t_max - prev.t_max) = prev.half_width

-----------------------------------------------------------------------------
(* Properties of the batch over a loaded ephemeris, checked under SpecLoaded *)

(* What eclipse returns for the observer of input row i, by itself *)
EstimateAlone(i) == eclipse(times, ephemeris[<<InputLat(i), InputLon(i)>>])

ResultsDependOnObserverOnly ==
    /\ \A i \in 1..Len(rows) :
           rows[i] = SolarResultRow(InputLat(i), InputLon(i),
                                    EstimateAlone(i).ret_time,
                                    EstimateAlone(i).magnitude)
    /\ \A i, j \in 1..Len(rows) : input[i] = input[j] => rows[i] = rows[j]
    /\ pc = "done" => out = rows

SharedStateUntouched ==
    /\ times' = times
    /\ ephemeris' = ephemeris
    /\ input' = input

\* C13: the result stored for an observer is what eclipse returns for that
\* observer's coordinates, the window and the ephemeris alone, so it is the
\* same whatever the other rows of the batch are and wherever the observer
\* appears; no step of the batch modifies the window or the ephemeris.
C13_ObserversIndependent ==
    []ResultsDependOnObserverOnly /\ [][SharedStateUntouched]_vars

C13_Witness ==
    /\ pc = "done"
    /\ Len(out) = 3
    /\ input[1] = input[3]
    /\ input[1] # input[2]
    /\ out[1].time = out[3].time
    /\ out[1].mag = out[3].mag
    /\ out[1].time # out[2].time
    /\ out[1].mag # out[2].mag

-----------------------------------------------------------------------------
(* The magnitude over the whole range of d, checked under SpecCall *)

\* C14: for fixed radii the magnitude is non-increasing in d over all d >= 0,
\* across the three branches, with no jump at a branch boundary: at
\* d = |R_sun - R_moon| and at d = R_sun + R_moon the magnitude returned is
\* the value of the partial-overlap formula there (min(R_moon, R_sun) / R_sun
\* and 0); and the magnitude is 0 exactly when d >= R_sun + R_moon.
C14_NonIncreasingNoJump ==
    SolarReturned =>
        /\ \A d2 \in 0..(R_sun + R_moon + 1) :
               /\ d <= d2 => QLe(Magnitude(d2, R_sun, R_moon), magnitude)
               /\ d2 <= d => QLe(magnitude, Magnitude(d2, R_sun, R_moon))
        /\ d = Abs(R_sun - R_moon) =>
               /\ QEq(magnitude, <<R_moon + R_sun - d, 2 * R_sun>>)
               /\ QEq(magnitude, <<Min(R_moon, R_sun), R_sun>>)
        /\ d = R_sun + R_moon =>
               /\ QEq(magnitude, <<R_moon + R_sun - d, 2 * R_sun>>)
               /\ QEq(magnitude, Zero)
        /\ QEq(magnitude, Zero) <=> d >= R_sun + R_moon

C14_Witness ==
    /\ SolarReturned
    /\ d = Abs(R_sun - R_moon)
    /\ d > 0
    /\ R_moon < R_sun
    /\ \E d2 \in 0..(R_sun + R_moon) :
           /\ d < d2
           /\ Partial(d2, R_sun, R_moon)
           /\ QLt(Magnitude(d2, R_sun, R_moon), magnitude)

====
